---- MODULE Spec2Model ----
(***************************************************************************)
(* Row-binary codecs of clickhouse_connect/datatypes/standard.py.          *)
(*                                                                         *)
(* Bytes are naturals 0..255 and a bytearray is a sequence of them.        *)
(* A Python int is kept exact, whatever its size, as a sign and a          *)
(* little-endian base-256 magnitude without high zero digits:              *)
(*   [neg |-> BOOLEAN, mag |-> Seq(0..255)],  zero is [FALSE, << >>].      *)
(* A Python str is the sequence of its code points; a returned value       *)
(* carries its Python type where the code can return several.              *)
(***************************************************************************)
EXTENDS Integers, Sequences, FiniteSets, TLC

VARIABLES UInt64_signed, FixedString_attrs, codec, last

vars == <<UInt64_signed, FixedString_attrs, codec, last>>

(***************************************************************************)
(* Bounds of the inputs.                                                   *)
(***************************************************************************)
\* the largest offset a decode is called at: the bytes of other fields in
\* front of the field in the source buffer
MaxPad == 1
\* bytes missing at the end of a source buffer
MaxShort == 1

(***************************************************************************)
(* Sequences of bytes.                                                     *)
(***************************************************************************)
Reverse(s) == [i \in 1..Len(s) |-> s[Len(s) + 1 - i]]

Repeat(b, n) == [i \in 1..n |-> b]

\* source[lo:hi] for 0 <= lo, 0 <= hi: the slice stops at the end of source
Slice(s, lo, hi) ==
  LET top == IF hi < Len(s) THEN hi ELSE Len(s)
  IN IF lo >= top THEN << >> ELSE [i \in 1..(top - lo) |-> s[lo + i]]

\* s[:-n] and s[-n:] of Python, with -0 being 0
SliceToNeg(s, n) ==
  IF n = 0 THEN << >>
  ELSE IF n >= Len(s) THEN << >> ELSE SubSeq(s, 1, Len(s) - n)

SliceFromNeg(s, n) ==
  IF n = 0 THEN s
  ELSE IF n >= Len(s) THEN s ELSE SubSeq(s, Len(s) - n + 1, Len(s))

(***************************************************************************)
(* Python int.                                                             *)
(***************************************************************************)
\* the largest element of a non-empty set of integers
Max(S) == CHOOSE x \in S : \A y \in S : y <= x

Min(S) == CHOOSE x \in S : \A y \in S : x <= y

\* m without its high zero digits
Strip(m) ==
  LET nz == {i \in 1..Len(m) : m[i] # 0}
  IN IF nz = {} THEN << >> ELSE SubSeq(m, 1, Max(nz))

PyNat(m) == [neg |-> FALSE, mag |-> Strip(m)]

PyMk(neg, m) ==
  LET s == Strip(m) IN [neg |-> (neg /\ s # << >>), mag |-> s]

RECURSIVE NatDigits(_)
NatDigits(n) == IF n = 0 THEN << >> ELSE <<n % 256>> \o NatDigits(n \div 256)

\* the Python int of a small integer literal
Py(n) == IF n < 0 THEN PyMk(TRUE, NatDigits(0 - n)) ELSE PyMk(FALSE, NatDigits(n))

PyZero == Py(0)

Invert(m) == [i \in 1..Len(m) |-> 255 - m[i]]

\* m + 1 on Len(m) digits, the carry out of the top digit dropped
Inc(m) ==
  LET low == {i \in 1..Len(m) : m[i] # 255}
      k   == IF low = {} THEN Len(m) + 1 ELSE Min(low)
  IN [i \in 1..Len(m) |-> IF i < k THEN 0 ELSE IF i = k THEN m[i] + 1 ELSE m[i]]

Pad(m, n) == IF Len(m) >= n THEN m ELSE m \o Repeat(0, n - Len(m))

\* comparison of magnitudes: -1, 0, 1
MagCmp(a, b) ==
  IF Len(a) < Len(b) THEN 0 - 1
  ELSE IF Len(a) > Len(b) THEN 1
  ELSE LET diff == {i \in 1..Len(a) : a[i] # b[i]}
       IN IF diff = {} THEN 0
          ELSE IF a[Max(diff)] < b[Max(diff)] THEN 0 - 1 ELSE 1

\* The digit loops below split the digits in two halves, the low half first
\* where a carry goes up and the high half first where a remainder goes down.

\* a + b + c for a and b of the same length: the digits and the carry out
RECURSIVE AddBlock(_, _, _)
AddBlock(a, b, c) ==
  IF Len(a) = 0 THEN [s |-> << >>, c |-> c]
  ELSE IF Len(a) = 1
  THEN [s |-> <<(a[1] + b[1] + c) % 256>>, c |-> (a[1] + b[1] + c) \div 256]
  ELSE LET h  == Len(a) \div 2
           lo == AddBlock(SubSeq(a, 1, h), SubSeq(b, 1, h), c)
           hi == AddBlock(SubSeq(a, h + 1, Len(a)), SubSeq(b, h + 1, Len(b)), lo.c)
       IN [s |-> lo.s \o hi.s, c |-> hi.c]

MagAdd(a, b) ==
  LET n == IF Len(a) > Len(b) THEN Len(a) ELSE Len(b)
      r == AddBlock(Pad(a, n), Pad(b, n), 0)
  IN IF r.c = 0 THEN r.s ELSE r.s \o <<r.c>>

\* a - b - w for a and b of the same length: the digits and the borrow out
RECURSIVE SubBlock(_, _, _)
SubBlock(a, b, w) ==
  IF Len(a) = 0 THEN [s |-> << >>, w |-> w]
  ELSE IF Len(a) = 1
  THEN LET t == a[1] - b[1] - w
       IN [s |-> <<IF t < 0 THEN t + 256 ELSE t>>, w |-> IF t < 0 THEN 1 ELSE 0]
  ELSE LET h  == Len(a) \div 2
           lo == SubBlock(SubSeq(a, 1, h), SubSeq(b, 1, h), w)
           hi == SubBlock(SubSeq(a, h + 1, Len(a)), SubSeq(b, h + 1, Len(b)), lo.w)
       IN [s |-> lo.s \o hi.s, w |-> hi.w]

\* a - b for a >= b
MagSub(a, b) == Strip(SubBlock(a, Pad(b, Len(a)), 0).s)

\* m * k + c for a digit k: the digits and the carry out
RECURSIVE MulBlock(_, _, _)
MulBlock(m, k, c) ==
  IF Len(m) = 0 THEN [s |-> << >>, c |-> c]
  ELSE IF Len(m) = 1
  THEN [s |-> <<(m[1] * k + c) % 256>>, c |-> (m[1] * k + c) \div 256]
  ELSE LET h  == Len(m) \div 2
           lo == MulBlock(SubSeq(m, 1, h), k, c)
           hi == MulBlock(SubSeq(m, h + 1, Len(m)), k, lo.c)
       IN [s |-> lo.s \o hi.s, c |-> hi.c]

MulDigit(m, k) ==
  LET r == MulBlock(m, k, 0) IN IF r.c = 0 THEN r.s ELSE r.s \o <<r.c>>

\* a * b, a digit of b at a time
RECURSIVE MagMulBy(_, _)
MagMulBy(a, b) ==
  IF b = << >> \/ a = << >> THEN << >>
  ELSE Strip(MagAdd(MulDigit(a, b[1]), <<0>> \o MagMulBy(a, Tail(b))))

MagMul(a, b) == IF Len(a) >= Len(b) THEN MagMulBy(a, b) ELSE MagMulBy(b, a)

PyNeg(a) == PyMk(~a.neg, a.mag)

PyAdd(a, b) ==
  IF a.neg = b.neg THEN PyMk(a.neg, MagAdd(a.mag, b.mag))
  ELSE IF MagCmp(a.mag, b.mag) >= 0 THEN PyMk(a.neg, MagSub(a.mag, b.mag))
  ELSE PyMk(b.neg, MagSub(b.mag, a.mag))

PySub(a, b) == PyAdd(a, PyNeg(b))

PyMul(a, b) == PyMk(a.neg # b.neg, MagMul(a.mag, b.mag))

PyCmp(a, b) ==
  IF a.neg /\ ~b.neg THEN 0 - 1
  ELSE IF ~a.neg /\ b.neg THEN 1
  ELSE IF a.neg THEN MagCmp(b.mag, a.mag)
  ELSE MagCmp(a.mag, b.mag)

PyLe(a, b) == PyCmp(a, b) <= 0

PyLt(a, b) == PyCmp(a, b) < 0

\* the value of a magnitude that fits a machine integer
RECURSIVE MagToNat(_)
MagToNat(m) == IF m = << >> THEN 0 ELSE m[1] + 256 * MagToNat(Tail(m))

\* 10 ** n
RECURSIVE PyPow10(_)
PyPow10(n) == IF n = 0 THEN Py(1) ELSE PyMul(Py(10), PyPow10(n - 1))

\* one byte of long division by d (0 < d <= 2^30), bit by bit from the top:
\* the remainder r < d comes in, the quotient byte and the remainder go out
RECURSIVE DivBits(_, _, _, _, _)
DivBits(r, byte, d, k, q) ==
  IF k = 0 THEN [q |-> q, r |-> r]
  ELSE LET w  == 2 ^ (k - 1)
           r2 == 2 * r + ((byte \div w) % 2)
       IN IF r2 >= d THEN DivBits(r2 - d, byte, d, k - 1, 2 * q + 1)
          ELSE DivBits(r2, byte, d, k - 1, 2 * q)

\* quotient and remainder of rin * 256^Len(m) + m by d, for rin < d: a digit at
\* a time where the partial dividend 256 * r + digit fits a machine integer,
\* a bit at a time otherwise
RECURSIVE DivBlock(_, _, _)
DivBlock(m, d, rin) ==
  IF Len(m) = 0 THEN [q |-> << >>, r |-> rin]
  ELSE IF Len(m) = 1
  THEN IF d <= 8000000
       THEN [q |-> <<(256 * rin + m[1]) \div d>>, r |-> (256 * rin + m[1]) % d]
       ELSE LET st == DivBits(rin, m[1], d, 8, 0) IN [q |-> <<st.q>>, r |-> st.r]
  ELSE LET h  == Len(m) \div 2
           hi == DivBlock(SubSeq(m, h + 1, Len(m)), d, rin)
           lo == DivBlock(SubSeq(m, 1, h), d, hi.r)
       IN IF hi.r < d THEN [q |-> lo.q \o hi.q, r |-> lo.r] ELSE hi

MagDivMod(m, d) == DivBlock(m, d, 0)

\* a // b of Python (floor) for a divisor 0 < b <= 2^30
PyFloorDiv(a, b) ==
  LET d  == MagToNat(b.mag)
      dm == MagDivMod(a.mag, d)
  IN IF ~a.neg THEN PyMk(FALSE, dm.q)
     ELSE IF dm.r = 0 THEN PyMk(TRUE, dm.q)
     ELSE PyMk(TRUE, MagAdd(Strip(dm.q), <<1>>))

\* int.from_bytes(bytes, byteorder, signed=signed)
IntFromBytes(bytes, byteorder, signed) ==
  LET le == IF byteorder = "little" THEN bytes ELSE Reverse(bytes)
  IN IF signed /\ le # << >> /\ le[Len(le)] >= 128
     THEN PyMk(TRUE, Inc(Invert(le)))
     ELSE PyMk(FALSE, le)

\* whether value.to_bytes(length, ..., signed=signed) raises OverflowError
ToBytesOverflows(value, length, signed) ==
  LET m == value.mag
  IN IF ~signed THEN value.neg \/ Len(m) > length
     ELSE IF ~value.neg
          THEN Len(m) > length \/ (Len(m) = length /\ length > 0 /\ m[length] >= 128)
          ELSE Len(m) > length
               \/ (Len(m) = length
                   /\ (m[length] > 128
                       \/ (m[length] = 128 /\ Strip(SubSeq(m, 1, length - 1)) # << >>)))

\* value.to_bytes(length, byteorder, signed=signed) when it does not raise
IntToBytes(value, length, byteorder, signed) ==
  LET le == IF value.neg THEN Inc(Invert(Pad(value.mag, length)))
            ELSE Pad(value.mag, length)
  IN IF byteorder = "little" THEN le ELSE Reverse(le)

\* the decimal digits of a magnitude, as code points, most significant first,
\* six digits per division
RECURSIVE DecDigitsOf(_, _)
DecDigitsOf(n, k) ==
  IF k = 0 THEN << >> ELSE DecDigitsOf(n \div 10, k - 1) \o <<48 + (n % 10)>>

\* a string of digits without its leading zeros, one digit kept
StripZeros(t) ==
  LET nz == {i \in 1..Len(t) : t[i] # 48}
  IN IF t = << >> THEN t
     ELSE IF nz = {} THEN <<48>> ELSE SubSeq(t, Min(nz), Len(t))

RECURSIVE DecDigits(_)
DecDigits(m) ==
  IF m = << >> THEN << >>
  ELSE LET dm == MagDivMod(m, 1000000)
           q  == Strip(dm.q)
       IN IF q = << >> THEN StripZeros(DecDigitsOf(dm.r, 6))
          ELSE DecDigits(q) \o DecDigitsOf(dm.r, 6)

\* str(value) for value >= 0
PyStr(value) == IF value.mag = << >> THEN <<48>> ELSE DecDigits(value.mag)

\* a & b for non-negative a and b
RECURSIVE BitAnd(_, _)
BitAnd(x, y) ==
  IF x = 0 \/ y = 0 THEN 0
  ELSE (x % 2) * (y % 2) + 2 * BitAnd(x \div 2, y \div 2)

PyAnd(a, b) ==
  LET n == IF Len(a.mag) < Len(b.mag) THEN Len(a.mag) ELSE Len(b.mag)
  IN PyNat([i \in 1..n |-> BitAnd(a.mag[i], b.mag[i])])

(***************************************************************************)
(* What a call gives: a returned value, or the exception it raises.        *)
(***************************************************************************)
None == "None"

Return(value, loc) == [err |-> "", value |-> value, loc |-> loc]

Raise(e) == [err |-> e, value |-> None, loc |-> 0 - 1]

(***************************************************************************)
(* Python str helpers: code points.                                        *)
(***************************************************************************)
HexChar(n) == IF n < 10 THEN 48 + n ELSE 87 + n

\* hexlify(value).decode('utf8')
Hexlify(b) ==
  [i \in 1..(2 * Len(b)) |->
     IF i % 2 = 1 THEN HexChar(b[(i + 1) \div 2] \div 16) ELSE HexChar(b[i \div 2] % 16)]

\* '%x' % n, no leading zeros
RECURSIVE HexStr(_)
HexStr(n) == IF n < 16 THEN <<HexChar(n)>> ELSE HexStr(n \div 16) \o <<HexChar(n % 16)>>

\* str(n) of a small non-negative integer
RECURSIVE DecStr(_)
DecStr(n) == IF n < 10 THEN <<48 + n>> ELSE DecStr(n \div 10) \o <<48 + (n % 10)>>

\* '<binary data>'
BinaryData == <<60, 98, 105, 110, 97, 114, 121, 32, 100, 97, 116, 97, 62>>

IsCont(b) == b >= 128 /\ b <= 191

\* bytes.decode('utf8'): the code points, or the position never reached
RECURSIVE Utf8Decode(_)
Utf8Decode(b) ==
  IF b = << >> THEN [err |-> "", text |-> << >>]
  ELSE LET b1 == b[1]
           n  == IF b1 < 128 THEN 1
                 ELSE IF b1 >= 194 /\ b1 <= 223 THEN 2
                 ELSE IF b1 >= 224 /\ b1 <= 239 THEN 3
                 ELSE IF b1 >= 240 /\ b1 <= 244 THEN 4
                 ELSE 0
           lo2 == IF b1 = 224 THEN 160 ELSE IF b1 = 240 THEN 144 ELSE 128
           hi2 == IF b1 = 237 THEN 159 ELSE IF b1 = 244 THEN 143 ELSE 191
           good == /\ n > 0
                   /\ Len(b) >= n
                   /\ (n >= 2 => (b[2] >= lo2 /\ b[2] <= hi2))
                   /\ (n >= 3 => IsCont(b[3]))
                   /\ (n >= 4 => IsCont(b[4]))
           cp == IF n = 1 THEN b1
                 ELSE IF n = 2 THEN (b1 % 32) * 64 + (b[2] % 64)
                 ELSE IF n = 3 THEN (b1 % 16) * 4096 + (b[2] % 64) * 64 + (b[3] % 64)
                 ELSE (b1 % 8) * 262144 + (b[2] % 64) * 4096
                      + (b[3] % 64) * 64 + (b[4] % 64)
       IN IF ~good THEN [err |-> "UnicodeDecodeError", text |-> << >>]
          ELSE LET rest == Utf8Decode(SubSeq(b, n + 1, Len(b)))
               IN IF rest.err # "" THEN rest
                  ELSE [err |-> "", text |-> <<cp>> \o rest.text]

\* bytearray.decode(encoding)
BytesDecode(b, encoding) ==
  IF encoding \in {"utf8", "utf-8"} THEN Utf8Decode(b)
  ELSE IF encoding = "ascii"
  THEN IF \E i \in 1..Len(b) : b[i] >= 128
       THEN [err |-> "UnicodeDecodeError", text |-> << >>]
       ELSE [err |-> "", text |-> b]
  ELSE IF encoding = "latin-1" THEN [err |-> "", text |-> b]
  ELSE [err |-> "LookupError", text |-> << >>]

(***************************************************************************)
(* Codec instances.  An instance holds what its constructor stores; the    *)
(* class attributes (signed, _transform, ...) are not copied into it.      *)
(***************************************************************************)
NoCodec == [cls |-> "None", size |-> 0, prec |-> PyZero, tzinfo |-> "UTC"]

Instance(cls, size, prec, tzinfo) ==
  [cls |-> cls, size |-> size, prec |-> prec, tzinfo |-> tzinfo]

\* pytz.timezone(name) for the zones of the model: the fixed offset from UTC
\* in seconds (timezone.utc is "UTC")
KnownZones == {"UTC", "EST"}

UtcOffset(tzinfo) ==
  IF tzinfo = "EST" THEN Py(0 - 18000) ELSE PyZero

\* type_def.values[i][1:-1] for the names of the model: the first and the last
\* character are dropped, whatever they are
Unquote(name) ==
  IF name = "'EST'" THEN "EST"
  ELSE IF name = "'Mars/Phobos'" THEN "Mars/Phobos"
  ELSE IF name = "EST" THEN "S"
  ELSE ""

(***************************************************************************)
(* Int, UInt                                                               *)
(***************************************************************************)
Int_init(cls, type_def) ==
  Return(Instance(cls, type_def.size \div 8, PyZero, "UTC"), 0)

\* self.signed of an Int or UInt instance: the class attribute
Int_signed(self) == self.cls = "Int"

Int_from_row_binary(self, source, loc) ==
  Return(IntFromBytes(Slice(source, loc, loc + self.size), "little", Int_signed(self)),
         loc + self.size)

\* the bytes are written most significant first
Int_to_row_binary_big(self, value, dest) ==
  IF ToBytesOverflows(value, self.size, Int_signed(self)) THEN Raise("OverflowError")
  ELSE Return(dest \o IntToBytes(value, self.size, "big", Int_signed(self)), 0)

Int_to_row_binary(self, value, dest) ==
  IF ToBytesOverflows(value, self.size, Int_signed(self)) THEN Raise("OverflowError")
  ELSE Return(dest \o IntToBytes(value, self.size, "little", Int_signed(self)), 0)

(***************************************************************************)
(* UInt64: signed is read from the class at every call                     *)
(***************************************************************************)
\* signed is the value the class was defined with
UInt64_from_row_binary_fixed(self, source, loc) ==
  Return(IntFromBytes(Slice(source, loc, loc + 8), "little", FALSE), loc + 8)

UInt64_from_row_binary(self, source, loc) ==
  Return(IntFromBytes(Slice(source, loc, loc + 8), "little", UInt64_signed), loc + 8)

UInt64_to_row_binary(self, value, dest) ==
  IF ToBytesOverflows(value, 8, UInt64_signed) THEN Raise("OverflowError")
  ELSE Return(dest \o IntToBytes(value, 8, "little", UInt64_signed), 0)

\* method.lower() for the method names of the model
Lower(method) ==
  IF method \in {"Signed", "SIGNED"} THEN "signed"
  ELSE IF method = "Unsigned" THEN "unsigned"
  ELSE method

\* the value uint64_handling(method) gives UInt64.signed
uint64_handling_signed(method) == Lower(method) = "signed"

(***************************************************************************)
(* Float32, Float64: the value is the IEEE-754 fields of the bytes         *)
(***************************************************************************)
Float32_from_row_binary(self, source, loc) ==
  LET b == Slice(source, loc, loc + 4)
  IN IF Len(b) # 4 THEN Raise("struct.error")
     ELSE Return([sign |-> b[4] \div 128,
                  exponent |-> (b[4] % 128) * 2 + (b[3] \div 128),
                  fraction |-> PyNat(<<b[1], b[2], b[3] % 128>>)], loc + 4)

Float64_from_row_binary(self, source, loc) ==
  LET b == Slice(source, loc, loc + 8)
  IN IF Len(b) # 8 THEN Raise("struct.error")
     ELSE Return([sign |-> b[8] \div 128,
                  exponent |-> (b[8] % 128) * 16 + (b[7] \div 16),
                  fraction |-> PyNat(<<b[1], b[2], b[3], b[4], b[5], b[6], b[7] % 16>>)],
                 loc + 8)

(***************************************************************************)
(* datetime, date: an instant is its whole seconds since the epoch and its *)
(* microseconds; a date is its days since 1970-01-01.  Years 1 to 9999.    *)
(***************************************************************************)
\* the first and the last day a date holds, in days since 1970-01-01:
\* 0001-01-01 and 9999-12-31
MinDay == Py(0 - 719162)

MaxDay == Py(2932896)

\* whether a datetime of `seconds` since the epoch exists (0001-01-01 00:00:00
\* to 9999-12-31 23:59:59)
InDatetimeRange(seconds) ==
  LET day == PyFloorDiv(seconds, Py(86400))
  IN PyLe(MinDay, day) /\ PyLe(day, MaxDay)

\* datetime.fromtimestamp(seconds, tzinfo): the UTC instant, then tzinfo.fromutc
FromTimestamp(seconds, tzinfo) ==
  IF ~InDatetimeRange(seconds) THEN Raise("ValueError")
  ELSE IF ~InDatetimeRange(PyAdd(seconds, UtcOffset(tzinfo))) THEN Raise("OverflowError")
  ELSE Return([secs |-> seconds, us |-> PyZero, tzinfo |-> tzinfo], 0)

\* dt + timedelta(microseconds=microseconds)
AddMicroseconds(dt, microseconds) ==
  LET carry == PyFloorDiv(microseconds, Py(1000000))
      us    == PySub(PyAdd(dt.us, microseconds), PyMul(carry, Py(1000000)))
      secs  == PyAdd(dt.secs, carry)
  IN IF ~InDatetimeRange(PyAdd(secs, UtcOffset(dt.tzinfo))) THEN Raise("OverflowError")
     ELSE Return([secs |-> secs, us |-> us, tzinfo |-> dt.tzinfo], 0)

DateTime_init(type_def) ==
  IF type_def.values # << >>
  THEN IF Unquote(type_def.values[1]) \in KnownZones
       THEN Return(Instance("DateTime", 0, PyZero, Unquote(type_def.values[1])), 0)
       ELSE Raise("UnknownTimeZoneError")
  ELSE Return(Instance("DateTime", 0, PyZero, "UTC"), 0)

DateTime_from_row_binary(self, source, loc) ==
  LET epoch == IntFromBytes(Slice(source, loc, loc + 4), "little", FALSE)
      dt    == FromTimestamp(epoch, self.tzinfo)
  IN IF dt.err # "" THEN dt ELSE Return(dt.value, loc + 4)

Date_from_row_binary(self, source, loc) ==
  LET epoch_days == IntFromBytes(Slice(source, loc, loc + 2), "little", FALSE)
      dt         == FromTimestamp(PyMul(epoch_days, Py(86400)), "UTC")
  IN IF dt.err # "" THEN dt
     ELSE Return([days |-> PyFloorDiv(dt.value.secs, Py(86400))], loc + 2)

Date32_from_row_binary(self, source, loc) ==
  LET days == IntFromBytes(Slice(source, loc, loc + 4), "little", TRUE)
  IN IF PyLt(days, Py(0 - 999999999)) \/ PyLt(Py(999999999), days)
     THEN Raise("OverflowError")
     ELSE IF PyLt(days, MinDay) \/ PyLt(MaxDay, days)
     THEN Raise("OverflowError")
     ELSE Return([days |-> days], loc + 4)

DateTime64_init(type_def) ==
  LET prec == PyPow10(type_def.values[1])
  IN IF Len(type_def.values) > 1
     THEN IF Unquote(type_def.values[2]) \in KnownZones
          THEN Return(Instance("DateTime64", 0, prec, Unquote(type_def.values[2])), 0)
          ELSE Raise("UnknownTimeZoneError")
     ELSE Return(Instance("DateTime64", 0, prec, "UTC"), 0)

\* the ticks are read without their sign
DateTime64_from_row_binary_unsigned(self, source, loc) ==
  LET ticks   == IntFromBytes(Slice(source, loc, loc + 8), "little", FALSE)
      seconds == PyFloorDiv(ticks, self.prec)
      dt_sec  == FromTimestamp(seconds, self.tzinfo)
      microseconds ==
        PyFloorDiv(PyMul(PySub(ticks, PyMul(seconds, self.prec)), Py(1000000)), self.prec)
  IN IF dt_sec.err # "" THEN dt_sec
     ELSE LET dt == AddMicroseconds(dt_sec.value, microseconds)
          IN IF dt.err # "" THEN dt ELSE Return(dt.value, loc + 8)

DateTime64_from_row_binary(self, source, loc) ==
  LET ticks   == IntFromBytes(Slice(source, loc, loc + 8), "little", TRUE)
      seconds == PyFloorDiv(ticks, self.prec)
      dt_sec  == FromTimestamp(seconds, self.tzinfo)
      microseconds ==
        PyFloorDiv(PyMul(PySub(ticks, PyMul(seconds, self.prec)), Py(1000000)), self.prec)
  IN IF dt_sec.err # "" THEN dt_sec
     ELSE LET dt == AddMicroseconds(dt_sec.value, microseconds)
          IN IF dt.err # "" THEN dt ELSE Return(dt.value, loc + 8)

(***************************************************************************)
(* FixedString.  A class attribute holding a function is the wrapper it    *)
(* was stored with and the function's name; a call through an instance     *)
(* passes the class first for a classmethod and nothing for a              *)
(* staticmethod, and fails when the function takes another number of       *)
(* arguments.                                                              *)
(***************************************************************************)
Attr(wrap, func) == [wrap |-> wrap, func |-> func]

\* the number of parameters of each function
Arity(func) ==
  IF func = "_fixed_string_raw" THEN 1
  ELSE IF func = "_fixed_string_decode" THEN 2
  ELSE IF func = "_hex_string" THEN 2
  ELSE 1  \* lambda cls: '<binary data>'

\* the number of arguments attr(value) passes
Passed(attr) == IF attr.wrap = "classmethod" THEN 2 ELSE 1

Bytes(b) == [type |-> "bytearray", data |-> b]

Str(t) == [type |-> "str", data |-> t]

fixed_string_raw(value) == Return(Bytes(value), 0)

hex_string(value) == Return(Str(Hexlify(value)), 0)

\* cls._encode_error(value)
Call_encode_error(value) ==
  LET attr == FixedString_attrs.encode_error
  IN IF Passed(attr) # Arity(attr.func) THEN Raise("TypeError")
     ELSE IF attr.func = "_fixed_string_raw" THEN fixed_string_raw(value)
     ELSE IF attr.func = "_hex_string" THEN hex_string(value)
     ELSE Return(Str(BinaryData), 0)

fixed_string_decode(value) ==
  LET d == BytesDecode(value, FixedString_attrs.encoding)
  IN IF d.err = "" THEN Return(Str(d.text), 0)
     ELSE IF d.err = "UnicodeDecodeError" THEN Call_encode_error(value)
     ELSE Raise(d.err)

\* self._transform(value)
Call_transform(value) ==
  LET attr == FixedString_attrs.transform
  IN IF Passed(attr) # Arity(attr.func) THEN Raise("TypeError")
     ELSE IF attr.func = "_fixed_string_raw" THEN fixed_string_raw(value)
     ELSE IF attr.func = "_fixed_string_decode" THEN fixed_string_decode(value)
     ELSE hex_string(value)

FixedString_init(type_def) ==
  Return(Instance("FixedString", type_def.values[1], PyZero, "UTC"), 0)

FixedString_from_row_binary(self, source, loc) ==
  LET r == Call_transform(Slice(source, loc, loc + self.size))
  IN IF r.err # "" THEN r ELSE Return(r.value, loc + self.size)

\* the class attributes after fixed_string_handling(method, encoding, encoding_error)
fixed_string_handling_attrs(attrs, method, encoding, encoding_error) ==
  IF method = "raw"
  THEN [attrs EXCEPT !.transform = Attr("staticmethod", "_fixed_string_raw")]
  ELSE IF method = "decode"
  THEN [encoding |-> encoding,
        transform |-> Attr("classmethod", "_fixed_string_decode"),
        encode_error |-> IF encoding_error = "hex"
                         THEN Attr("classmethod", "_hex_string")
                         ELSE Attr("classmethod", "lambda")]
  ELSE IF method = "hex"
  THEN [attrs EXCEPT !.transform = Attr("staticmethod", "_hex_string")]
  ELSE attrs

(***************************************************************************)
(* UUID, Boolean                                                           *)
(***************************************************************************)
UUID_from_row_binary(self, source, loc) ==
  LET int_high == IntFromBytes(Slice(source, loc, loc + 8), "little", FALSE)
      int_low  == IntFromBytes(Slice(source, loc + 8, loc + 16), "little", FALSE)
      byte_value == IntToBytes(int_high, 8, "big", FALSE)
                    \o IntToBytes(int_low, 8, "big", FALSE)
  IN Return([bytes |-> byte_value], loc + 16)

Boolean_from_row_binary(self, source, loc) ==
  IF loc >= Len(source) THEN Raise("IndexError")
  ELSE Return(source[loc + 1] > 0, loc + 1)

(***************************************************************************)
(* Decimal.  A decimal.Decimal is its sign, its coefficient (a string of    *)
(* decimal digits) and its exponent: (-1)^sign * int * 10^exp.             *)
(***************************************************************************)
\* the last valid precision is refused
Decimal_init_off_by_one(type_def) ==
  IF type_def.size = 0
  THEN LET prec == type_def.values[1]
           size == IF prec < 10 THEN 32
                   ELSE IF prec < 19 THEN 64
                   ELSE IF prec < 39 THEN 128
                   ELSE 256
       IN IF prec < 1 \/ prec >= 79 THEN Raise("ArithmeticError")
          ELSE Return(Instance("Decimal", size \div 8, Py(type_def.values[2]), "UTC"), 0)
  ELSE Return(Instance("Decimal", type_def.size \div 8, Py(type_def.values[1]), "UTC"), 0)

Decimal_init(type_def) ==
  IF type_def.size = 0
  THEN LET prec == type_def.values[1]
           size == IF prec < 10 THEN 32
                   ELSE IF prec < 19 THEN 64
                   ELSE IF prec < 39 THEN 128
                   ELSE 256
       IN IF prec < 1 \/ prec > 79 THEN Raise("ArithmeticError")
          ELSE Return(Instance("Decimal", size \div 8, Py(type_def.values[2]), "UTC"), 0)
  ELSE Return(Instance("Decimal", type_def.size \div 8, Py(type_def.values[1]), "UTC"), 0)

\* decimal.Decimal(text) for text of the form [-]digits.digits: the coefficient
\* is str(int(intpart + fracpart)), the exponent -len(fracpart)
DecimalParse(text) ==
  LET sign == IF text # << >> /\ text[1] = 45 THEN 1 ELSE 0
      body == IF sign = 1 THEN Tail(text) ELSE text
      dot  == CHOOSE i \in 1..Len(body) : body[i] = 46
      intpart  == SubSeq(body, 1, dot - 1)
      fracpart == SubSeq(body, dot + 1, Len(body))
  IN IF intpart = << >> /\ fracpart = << >> THEN Raise("InvalidOperation")
     ELSE Return([sign |-> sign, int |-> StripZeros(intpart \o fracpart),
                  exp |-> 0 - Len(fracpart)], 0)

Decimal_from_row_binary(self, source, loc) ==
  LET read     == IntFromBytes(Slice(source, loc, loc + self.size), "little", FALSE)
      neg      == IF PyLe(read, PyZero) THEN <<45>> ELSE << >>
      unscaled == IF PyLe(read, PyZero) THEN PyNeg(read) ELSE read
      digits   == PyStr(unscaled)
      prec     == MagToNat(self.prec.mag)
      d        == DecimalParse(neg \o SliceToNeg(digits, prec) \o <<46>>
                               \o SliceFromNeg(digits, prec))
  IN IF d.err # "" THEN d ELSE Return(d.value, loc + self.size)

(***************************************************************************)
(* IPv4, IPv6                                                              *)
(***************************************************************************)
\* str(IPv4Address(address)) for 0 <= address < 2^32
IPv4Str(address) ==
  LET b == IntToBytes(address, 4, "big", FALSE)
  IN DecStr(b[1]) \o <<46>> \o DecStr(b[2]) \o <<46>> \o DecStr(b[3]) \o <<46>> \o DecStr(b[4])

\* the hextets i..j joined by ':'
RECURSIVE JoinHextets(_, _, _)
JoinHextets(h, i, j) ==
  IF i > j THEN << >>
  ELSE IF i = j THEN HexStr(h[i])
  ELSE HexStr(h[i]) \o <<58>> \o JoinHextets(h, i + 1, j)

\* the length of the run of zero hextets starting at i
RECURSIVE ZeroRun(_, _)
ZeroRun(h, i) == IF i > 8 \/ h[i] # 0 THEN 0 ELSE 1 + ZeroRun(h, i + 1)

\* str(IPv6Address(address)) for 0 <= address < 2^128: the first longest run of
\* two or more zero hextets is written '::'
IPv6Str(address) ==
  LET b    == IntToBytes(address, 16, "big", FALSE)
      h    == [i \in 1..8 |-> b[2 * i - 1] * 256 + b[2 * i]]
      run  == [i \in 1..8 |-> ZeroRun(h, i)]
      best == CHOOSE i \in 1..8 :
                /\ \A j \in 1..8 : run[j] <= run[i]
                /\ \A j \in 1..(i - 1) : run[j] < run[i]
      n    == run[best]
  IN IF n < 2 THEN JoinHextets(h, 1, 8)
     ELSE JoinHextets(h, 1, best - 1) \o <<58, 58>> \o JoinHextets(h, best + n, 8)

IPv4_from_row_binary(self, source, loc) ==
  Return(Str(IPv4Str(IntFromBytes(Slice(source, loc, loc + 4), "little", FALSE))), loc + 4)

\* 0xFFFF00000000 and 0xFFFFFFFF
MaskFFFF00000000 == PyNat(<<0, 0, 0, 0, 255, 255>>)

MaskFFFFFFFF == PyNat(<<255, 255, 255, 255>>)

IPv6_from_row_binary(self, source, loc) ==
  LET end == loc + 16
      int_value == IntFromBytes(Slice(source, loc, end), "big", FALSE)
  IN IF PyAnd(int_value, MaskFFFF00000000) = MaskFFFF00000000
     THEN Return(Str(IPv4Str(PyAnd(int_value, MaskFFFFFFFF))), end)
     ELSE Return(Str(IPv6Str(IntFromBytes(Slice(source, loc, end), "big", FALSE))), end)

\* the classes whose constructor is the base class's: no argument is read
Simple_init(cls) == Return(Instance(cls, 0, PyZero, "UTC"), 0)

(***************************************************************************)
(* Dispatch on the class of the instance.                                  *)
(***************************************************************************)
from_row_binary(self, source, loc) ==
  CASE self.cls \in {"Int", "UInt"} -> Int_from_row_binary(self, source, loc)
    [] self.cls = "UInt64"     -> UInt64_from_row_binary(self, source, loc)
    [] self.cls = "Float32"    -> Float32_from_row_binary(self, source, loc)
    [] self.cls = "Float64"    -> Float64_from_row_binary(self, source, loc)
    [] self.cls = "DateTime"   -> DateTime_from_row_binary(self, source, loc)
    [] self.cls = "Date"       -> Date_from_row_binary(self, source, loc)
    [] self.cls = "Date32"     -> Date32_from_row_binary(self, source, loc)
    [] self.cls = "DateTime64" -> DateTime64_from_row_binary(self, source, loc)
    [] self.cls = "FixedString" -> FixedString_from_row_binary(self, source, loc)
    [] self.cls = "UUID"       -> UUID_from_row_binary(self, source, loc)
    [] self.cls \in {"Boolean", "Bool"} -> Boolean_from_row_binary(self, source, loc)
    [] self.cls = "Decimal"    -> Decimal_from_row_binary(self, source, loc)
    [] self.cls = "IPv4"       -> IPv4_from_row_binary(self, source, loc)
    [] self.cls = "IPv6"       -> IPv6_from_row_binary(self, source, loc)

to_row_binary(self, value, dest) ==
  IF self.cls = "UInt64" THEN UInt64_to_row_binary(self, value, dest)
  ELSE Int_to_row_binary(self, value, dest)

\* the number of bytes of a field of the codec
Width(self) ==
  CASE self.cls \in {"Int", "UInt", "FixedString", "Decimal"} -> self.size
    [] self.cls \in {"Boolean", "Bool"} -> 1
    [] self.cls = "Date" -> 2
    [] self.cls \in {"Float32", "DateTime", "Date32", "IPv4"} -> 4
    [] self.cls \in {"UInt64", "Float64", "DateTime64"} -> 8
    [] self.cls \in {"UUID", "IPv6"} -> 16
    [] OTHER -> 0

(***************************************************************************)
(* Inputs: type definitions, wire fields, values to encode.                *)
(***************************************************************************)
TypeDef(size, values) == [size |-> size, values |-> values]

\* v is in the range of w bytes, signed or unsigned
Representable(v, w, signed) ==
  LET half == PyNat(Repeat(0, w - 1) \o <<128>>)
      full == PyNat(Repeat(0, w) \o <<1>>)
  IN IF signed THEN PyLe(PyNeg(half), v) /\ PyLt(v, half)
     ELSE PyLe(PyZero, v) /\ PyLt(v, full)

IntSizes == {8, 16, 32, 64, 128, 256}

\* wire fields of w bytes: the low byte, the bytes between, the high byte
IntFields(w) ==
  IF w = 0 THEN {<< >>}
  ELSE IF w = 1 THEN {<<b>> : b \in {0, 1, 127, 128, 255}}
  ELSE {<<lo>> \o Repeat(fill, w - 2) \o <<hi>> :
          lo \in {0, 1, 255}, fill \in {0, 255}, hi \in {0, 127, 128, 255}}

\* values offered to an encode of w bytes: around zero and around the ends of
\* the signed and of the unsigned range, the first values out of range included
IntValues(w) ==
  LET half == PyNat(Repeat(0, w - 1) \o <<128>>)
      full == PyNat(Repeat(0, w) \o <<1>>)
  IN {Py(0), Py(1), Py(0 - 1), Py(127), Py(0 - 128),
      PySub(half, Py(1)), half, PyNeg(half), PySub(PyNeg(half), Py(1)),
      PySub(full, Py(1)), full}

\* the bytes already in the output buffer an encode appends to
Dests == {<< >>, <<170>>}

\* lengths of the FixedString types
MaxFixedLen == 2

\* 'A', the two bytes of U+00E9 in UTF-8, and a byte no UTF-8 text holds
FixedAlphabet == {65, 195, 169, 255}

FixedFields(n) == [1..n -> FixedAlphabet]

\* the w-byte two's-complement little-endian fields of the values that fit
SignedFields(values, w) ==
  {IntToBytes(v, w, "little", TRUE) : v \in {x \in values : Representable(x, w, TRUE)}}

\* the first and the last second a datetime holds: -62135596800, 253402300799
MinSeconds == PyMk(TRUE, <<0, 247, 145, 119, 14>>)

MaxSeconds == PyMk(FALSE, <<127, 65, 244, 255, 58>>)

\* tick counts for a DateTime64 of prec ticks per second: around zero, one
\* second, the ends of the datetime range (in UTC and five hours west of it)
\* and the ends of the 64-bit range
TickValues(prec) ==
  LET half == PyNat(Repeat(0, 7) \o <<128>>)
      west == PyMul(Py(18000), prec)
      top  == PyAdd(PyMul(MaxSeconds, prec), PySub(prec, Py(1)))
      bot  == PyMul(MinSeconds, prec)
  IN {Py(0), Py(1), Py(0 - 1), prec, PyNeg(prec),
      PySub(PyNeg(prec), Py(1)), PyAdd(PyMul(Py(2), prec), Py(7)),
      top, PyAdd(top, Py(1)), bot, PySub(bot, Py(1)),
      PyAdd(bot, west), PySub(PyAdd(bot, west), Py(1)),
      PySub(half, Py(1)), PyNeg(half)}

\* unscaled values of a Decimal
UnscaledValues(w) ==
  LET half == PyNat(Repeat(0, w - 1) \o <<128>>)
  IN {Py(0), Py(1), Py(0 - 1), Py(5), Py(0 - 5), Py(123), Py(1000), Py(12345),
      Py(0 - 12345), PySub(half, Py(1)), PyNeg(half)}

IPv4Fields == {<<1, 2, 3, 4>>, <<127, 0, 0, 1>>, <<0, 0, 0, 0>>, <<255, 255, 255, 255>>,
               <<192, 168, 0, 10>>, <<7, 7, 7, 7>>}

\* the first twelve bytes of an IPv6 field: the IPv4-mapped prefix and others
IPv6Prefixes ==
  {Repeat(0, 10) \o <<255, 255>>,
   Repeat(0, 10) \o <<255, 254>>,
   Repeat(0, 12),
   <<1>> \o Repeat(0, 9) \o <<255, 255>>,
   <<32, 1, 13, 184>> \o Repeat(0, 6) \o <<255, 255>>,
   <<32, 1, 13, 184>> \o Repeat(0, 8),
   <<254, 128>> \o Repeat(0, 6) \o <<0, 1, 0, 2>>,
   Repeat(255, 12)}

IPv6Fields == {pre \o v4 : pre \in IPv6Prefixes, v4 \in IPv4Fields}

\* the wire fields offered to a decode of the codec
Fields(self) ==
  CASE self.cls = "FixedString" -> FixedFields(self.size)
    [] self.cls = "DateTime64" -> SignedFields(TickValues(self.prec), 8)
    [] self.cls = "Decimal" -> SignedFields(UnscaledValues(self.size), self.size)
    [] self.cls = "IPv4" -> IPv4Fields
    [] self.cls = "IPv6" -> IPv6Fields
    [] OTHER -> IntFields(Width(self))

\* the source buffers of a decode at offset loc: loc bytes of other fields,
\* then the field, its last bytes missing
Sources(self, loc) ==
  {Repeat(170, loc) \o Slice(f, 0, Len(f) - short) :
     short \in 0..MaxShort, f \in Fields(self)}

(***************************************************************************)
(* The state: the two classes' attributes, the codec instance in use, and  *)
(* the most recent call with what it was given and what it gave.           *)
(***************************************************************************)
Wire == [kind |-> "wire", value |-> PyZero, dest |-> << >>]

Call(op, arg, source, loc, origin, result) ==
  [op |-> op, arg |-> arg, source |-> source, loc |-> loc, origin |-> origin,
   result |-> result]

Init ==
  /\ UInt64_signed = FALSE
  /\ FixedString_attrs = [encoding |-> "utf8",
                          transform |-> Attr("staticmethod", "_fixed_string_raw"),
                          encode_error |-> Attr("staticmethod", "_fixed_string_raw")]
  /\ codec = NoCodec
  /\ last = Call("init", None, << >>, 0, Wire, Return(None, 0))

\* the instance in use after a constructor call: the new one unless it raised
Constructed(r) == IF r.err = "" THEN r.value ELSE codec

ConstructCall(cls, type_def, r) ==
  Call("construct", [cls |-> cls, type_def |-> type_def], << >>, 0, Wire, r)

NewInt ==
  \E cls \in {"Int", "UInt"}, size \in IntSizes :
    LET r == Int_init(cls, TypeDef(size, << >>))
    IN /\ codec' = Constructed(r)
       /\ last' = ConstructCall(cls, TypeDef(size, << >>), r)
       /\ UNCHANGED <<UInt64_signed, FixedString_attrs>>

NewUInt64 ==
  LET r == Simple_init("UInt64")
  IN /\ codec' = Constructed(r)
     /\ last' = ConstructCall("UInt64", TypeDef(64, << >>), r)
     /\ UNCHANGED <<UInt64_signed, FixedString_attrs>>

Uint64Handling ==
  \E method \in {"signed", "unsigned", "Signed", "SIGNED", "Unsigned", "yes"} :
    /\ UInt64_signed' = uint64_handling_signed(method)
    /\ last' = Call("uint64_handling", method, << >>, 0, Wire, Return(None, 0))
    /\ UNCHANGED <<FixedString_attrs, codec>>

Encode ==
  /\ codec.cls \in {"Int", "UInt", "UInt64"}
  /\ \E value \in IntValues(Width(codec)), dest \in Dests :
       last' = Call("encode", value, dest, 0, Wire, to_row_binary(codec, value, dest))
  /\ UNCHANGED <<UInt64_signed, FixedString_attrs, codec>>

\* a decode of bytes received
Decode ==
  /\ codec.cls # "None"
  /\ \E loc \in 0..MaxPad :
       \E source \in Sources(codec, loc) :
         last' = Call("decode", None, source, loc, Wire, from_row_binary(codec, source, loc))
  /\ UNCHANGED <<UInt64_signed, FixedString_attrs, codec>>

\* a decode of the buffer the preceding encode wrote
DecodeEncoded ==
  /\ last.op = "encode"
  /\ last.result.err = ""
  /\ \E loc \in 0..MaxPad :
       last' = Call("decode", None, last.result.value, loc,
                    [kind |-> "encode", value |-> last.arg, dest |-> last.source],
                    from_row_binary(codec, last.result.value, loc))
  /\ UNCHANGED <<UInt64_signed, FixedString_attrs, codec>>

\* the classes that take the base class's constructor
NewSimple(cls) ==
  LET r == Simple_init(cls)
  IN /\ codec' = Constructed(r)
     /\ last' = ConstructCall(cls, TypeDef(0, << >>), r)
     /\ UNCHANGED <<UInt64_signed, FixedString_attrs>>

NewFloat == \E cls \in {"Float32", "Float64"} : NewSimple(cls)

NewDate == \E cls \in {"Date", "Date32"} : NewSimple(cls)

NewUUID == NewSimple("UUID")

NewBoolean == \E cls \in {"Boolean", "Bool"} : NewSimple(cls)

NewIP == \E cls \in {"IPv4", "IPv6"} : NewSimple(cls)

\* the timezone arguments of a type definition: none, a zone, an unknown zone
ZoneArgs == {<< >>, <<"'EST'">>, <<"'Mars/Phobos'">>}

NewDateTime ==
  \E zone \in ZoneArgs :
    LET r == DateTime_init(TypeDef(0, zone))
    IN /\ codec' = Constructed(r)
       /\ last' = ConstructCall("DateTime", TypeDef(0, zone), r)
       /\ UNCHANGED <<UInt64_signed, FixedString_attrs>>

\* the scales of DateTime64
Scales == 0..9

NewDateTime64 ==
  \E scale \in Scales, zone \in ZoneArgs :
    LET r == DateTime64_init(TypeDef(0, <<scale>> \o zone))
    IN /\ codec' = Constructed(r)
       /\ last' = ConstructCall("DateTime64", TypeDef(0, <<scale>> \o zone), r)
       /\ UNCHANGED <<UInt64_signed, FixedString_attrs>>

NewFixedString ==
  \E n \in 1..MaxFixedLen :
    LET r == FixedString_init(TypeDef(0, <<n>>))
    IN /\ codec' = Constructed(r)
       /\ last' = ConstructCall("FixedString", TypeDef(0, <<n>>), r)
       /\ UNCHANGED <<UInt64_signed, FixedString_attrs>>

\* the precision arguments offered to Decimal: around the ends of the valid
\* range and around each change of width
PrecisionArgs == {0 - 1, 0, 1, 2, 9, 10, 11, 18, 19, 20, 38, 39, 40, 78, 79, 80, 81, 100}

DecimalScales == {0, 2}

\* Decimal(P, S), and Decimal32(S) ... Decimal256(S) whose width is fixed
DecimalTypeDefs ==
  {TypeDef(0, <<prec, scale>>) : prec \in PrecisionArgs, scale \in DecimalScales}
  \cup {TypeDef(size, <<scale>>) : size \in {32, 64, 128, 256}, scale \in DecimalScales}

NewDecimal ==
  \E type_def \in DecimalTypeDefs :
    LET r == Decimal_init(type_def)
    IN /\ codec' = Constructed(r)
       /\ last' = ConstructCall("Decimal", type_def, r)
       /\ UNCHANGED <<UInt64_signed, FixedString_attrs>>

Encodings == {"utf8", "ascii", "latin-1", "klingon"}

FixedStringHandling ==
  \E method \in {"raw", "decode", "hex"}, encoding \in Encodings,
     encoding_error \in {"hex", "placeholder"} :
    /\ FixedString_attrs' =
         fixed_string_handling_attrs(FixedString_attrs, method, encoding, encoding_error)
    /\ last' = Call("fixed_string_handling",
                    [method |-> method, encoding |-> encoding,
                     encoding_error |-> encoding_error], << >>, 0, Wire, Return(None, 0))
    /\ UNCHANGED <<UInt64_signed, codec>>

NextInt ==
  \/ NewInt
  \/ NewUInt64
  \/ Uint64Handling
  \/ Encode
  \/ Decode
  \/ DecodeEncoded

SpecInt == Init /\ [][NextInt]_vars

NextFixedString ==
  \/ NewFixedString
  \/ FixedStringHandling
  \/ Decode

SpecFixedString == Init /\ [][NextFixedString]_vars

NextDecimal ==
  \/ NewDecimal
  \/ Decode

SpecDecimal == Init /\ [][NextDecimal]_vars

NextDateTime64 ==
  \/ NewDateTime64
  \/ Decode

SpecDateTime64 == Init /\ [][NextDateTime64]_vars

NextIP ==
  \/ NewIP
  \/ Decode

SpecIP == Init /\ [][NextIP]_vars

\* every codec with a fixed width, each decoding
Next ==
  \/ NewInt
  \/ NewUInt64
  \/ NewFloat
  \/ NewDate
  \/ NewDateTime
  \/ NewDateTime64
  \/ NewFixedString
  \/ NewUUID
  \/ NewBoolean
  \/ NewDecimal
  \/ NewIP
  \/ Decode

Spec == Init /\ [][Next]_vars

(***************************************************************************)
(* C1: round trip of the fixed-width integers.                             *)
(***************************************************************************)
\* the signedness of the integer codec in use
SignedNow == IF codec.cls = "UInt64" THEN UInt64_signed ELSE codec.cls = "Int"

\* C1: for every Int, UInt and UInt64 codec, a value in the codec's range is
\* encoded without error, and a decode at offset 0 of what an encode into an
\* empty buffer wrote, the 64-bit policy unchanged in between, returns that
\* value and the offset equal to the codec's byte width.
C1_RoundTrip ==
  /\ (last.op = "encode" /\ Representable(last.arg, Width(codec), SignedNow))
       => (last.result.err = ""
           /\ Len(last.result.value) = Len(last.source) + Width(codec))
  /\ (last.op = "decode" /\ last.origin.kind = "encode" /\ last.origin.dest = << >>
      /\ last.loc = 0)
       => (last.result.err = ""
           /\ last.result.value = last.origin.value
           /\ last.result.loc = Width(codec))

\* a 256-bit signed codec gave back the most negative value it holds
C1_Witness ==
  /\ codec.cls = "Int" /\ codec.size = 32
  /\ last.op = "decode" /\ last.origin.kind = "encode" /\ last.origin.dest = << >>
  /\ last.loc = 0
  /\ last.origin.value = PyMk(TRUE, Repeat(0, 31) \o <<128>>)
  /\ last.result.value = last.origin.value

(***************************************************************************)
(* C2: the 64-bit policy is read at decode time.                           *)
(***************************************************************************)
FFx8 == Repeat(255, 8)

\* C2: UInt64.signed starts unsigned, only uint64_handling changes it, to
\* signed exactly when the method given is 'signed' in any case, the switch
\* leaves the instance in use as it is, and every UInt64 decode of
\* FF FF FF FF FF FF FF FF gives 18446744073709551615 while the attribute is
\* unsigned and -1 while it is signed.
C2_PolicyAtDecodeTime ==
  /\ UInt64_signed = FALSE
  /\ [](\A b \in {TRUE, FALSE} :
          (/\ codec.cls = "UInt64" /\ last.op = "decode" /\ UInt64_signed = b
           /\ Slice(last.source, last.loc, last.loc + 8) = FFx8)
            => (last.result.err = ""
                /\ last.result.value = IF b THEN Py(0 - 1) ELSE PyNat(FFx8)))
  /\ [][IF last'.op = "uint64_handling"
        THEN /\ UInt64_signed' = (last'.arg \in {"signed", "Signed", "SIGNED"})
             /\ codec' = codec
        ELSE UInt64_signed' = UInt64_signed]_vars

\* an instance decoded FF x 8 as -1 under the signed policy
C2_Witness ==
  /\ codec.cls = "UInt64" /\ last.op = "decode" /\ UInt64_signed
  /\ Slice(last.source, last.loc, last.loc + 8) = FFx8
  /\ last.result.value = Py(0 - 1)

(***************************************************************************)
(* Decodes: the field a decode was given.                                  *)
(***************************************************************************)
\* the bytes from the offset of the last decode on, at most the codec's width
Field == Slice(last.source, last.loc, last.loc + Width(codec))

\* the last call decoded a field the buffer holds whole
DecodedWhole(cls) ==
  /\ last.op = "decode"
  /\ codec.cls = cls
  /\ Len(last.source) >= last.loc + Width(codec)

(***************************************************************************)
(* C3, C7, C8: the FixedString policy.  The class attributes hold what the *)
(* most recent fixed_string_handling call stored: the method in transform, *)
(* and for method decode the encoding and the fallback too.                *)
(***************************************************************************)
MethodInForce ==
  IF FixedString_attrs.transform.func = "_fixed_string_raw" THEN "raw"
  ELSE IF FixedString_attrs.transform.func = "_fixed_string_decode" THEN "decode"
  ELSE "hex"

FallbackInForce ==
  IF FixedString_attrs.encode_error.func = "_hex_string" THEN "hex" ELSE "placeholder"

\* the bytes are not text in the encoding
InvalidIn(b, encoding) == BytesDecode(b, encoding).err = "UnicodeDecodeError"

\* C3: whatever calls of fixed_string_handling came before, a FixedString
\* decode gives what the method, encoding and fallback of the most recent
\* call say: the bytes for raw, the text in the encoding for decode (the
\* hex rendering or '<binary data>' for bytes that are no such text), the
\* hex rendering for hex.
C3_PolicyOfLastCall ==
  (DecodedWhole("FixedString")
   /\ BytesDecode(Field, FixedString_attrs.encoding).err # "LookupError")
    => /\ last.result.err = ""
       /\ last.result.loc = last.loc + codec.size
       /\ last.result.value =
            IF MethodInForce = "raw" THEN Bytes(Field)
            ELSE IF MethodInForce = "hex" THEN Str(Hexlify(Field))
            ELSE IF ~InvalidIn(Field, FixedString_attrs.encoding)
            THEN Str(BytesDecode(Field, FixedString_attrs.encoding).text)
            ELSE IF FallbackInForce = "hex" THEN Str(Hexlify(Field))
            ELSE Str(BinaryData)

\* C7: bytes that are no text in the configured encoding decode to the same
\* str, their hex rendering, under method decode with the hex fallback and
\* under method hex.
C7_HexFallbackIsHexMode ==
  (/\ DecodedWhole("FixedString")
   /\ InvalidIn(Field, FixedString_attrs.encoding)
   /\ \/ MethodInForce = "hex"
      \/ (MethodInForce = "decode" /\ FallbackInForce = "hex"))
    => /\ last.result.err = ""
       /\ last.result.value = Str(Hexlify(Field))

\* C8: under method decode with a fallback other than hex, bytes that are no
\* text in the configured encoding raise nothing: the decode returns
\* '<binary data>' and the offset moved on by the fixed length.
C8_PlaceholderFallback ==
  (/\ DecodedWhole("FixedString")
   /\ MethodInForce = "decode"
   /\ FixedString_attrs.encode_error.func = "lambda"
   /\ InvalidIn(Field, FixedString_attrs.encoding))
    => /\ last.result.err = ""
       /\ last.result.value = Str(BinaryData)
       /\ last.result.loc = last.loc + codec.size

(***************************************************************************)
(* C4: a buffer shorter than the field.                                    *)
(***************************************************************************)
\* C4: a decode at an offset where the buffer holds fewer bytes than the
\* codec's width raises an error: it returns no value and no offset.
C4_ShortBufferRaises ==
  (last.op = "decode" /\ Len(last.source) < last.loc + Width(codec))
    => last.result.err # ""

(***************************************************************************)
(* C5, C6: Decimal.                                                        *)
(***************************************************************************)
\* a decimal without the trailing zeros of its coefficient; zero is 0E0
Canonical(d) ==
  LET nz == {i \in 1..Len(d.int) : d.int[i] # 48}
  IN IF nz = {} THEN [sign |-> d.sign, int |-> <<48>>, exp |-> 0]
     ELSE [sign |-> d.sign, int |-> SubSeq(d.int, 1, Max(nz)),
           exp |-> d.exp + (Len(d.int) - Max(nz))]

\* C5: a Decimal of scale s decodes the two's-complement field of the signed
\* integer u to u * 10^(-s): the sign of u, the digits of |u|, the point s
\* digits from the right; zero comes without a sign.
C5_DecimalValue ==
  DecodedWhole("Decimal")
    => LET u == IntFromBytes(Field, "little", TRUE)
           want == [sign |-> IF u.neg THEN 1 ELSE 0,
                    int |-> PyStr(PyMk(FALSE, u.mag)),
                    exp |-> 0 - MagToNat(codec.prec.mag)]
       IN /\ last.result.err = ""
          /\ Canonical(last.result.value) = Canonical(want)
          /\ last.result.loc = last.loc + codec.size

\* C6: Decimal(P, S) with no fixed width is refused exactly when P < 1 or
\* P > 79, with ArithmeticError; otherwise the instance is 4 bytes wide for
\* P < 10, 8 for P < 19, 16 for P < 39 and 32 from there on.
C6_DecimalPrecision ==
  (last.op = "construct" /\ last.arg.cls = "Decimal" /\ last.arg.type_def.size = 0)
    => LET p == last.arg.type_def.values[1]
       IN IF p < 1 \/ p > 79
          THEN last.result.err = "ArithmeticError"
          ELSE /\ last.result.err = ""
               /\ codec = last.result.value
               /\ codec.cls = "Decimal"
               /\ codec.size = IF p < 10 THEN 4
                               ELSE IF p < 19 THEN 8
                               ELSE IF p < 39 THEN 16
                               ELSE 32

\* Decimal(79, S) was accepted, 32 bytes wide
C6_Witness ==
  /\ last.op = "construct" /\ last.arg.cls = "Decimal"
  /\ last.arg.type_def.size = 0 /\ last.arg.type_def.values[1] = 79
  /\ last.result.err = "" /\ codec.size = 32

(***************************************************************************)
(* C9: DateTime64.                                                         *)
(***************************************************************************)
\* the second count floor(t / prec) and the same moved into the timezone both
\* have a datetime
TicksInRange(t, prec, tzinfo) ==
  LET lo == IF tzinfo = "EST" THEN PyAdd(MinSeconds, Py(18000)) ELSE MinSeconds
  IN /\ PyLe(PyMul(lo, prec), t)
     /\ PyLt(t, PyMul(PyAdd(MaxSeconds, Py(1)), prec))

\* value is the instant of t ticks at prec ticks per second: secs is
\* floor(t / prec), and us is floor((t - secs * prec) * 1000000 / prec)
InstantOf(value, t, prec) ==
  LET rest == PySub(t, PyMul(value.secs, prec))
  IN /\ PyLe(PyZero, rest) /\ PyLt(rest, prec)
     /\ PyLe(PyZero, value.us) /\ PyLe(value.us, Py(999999))
     /\ PyLe(PyMul(value.us, prec), PyMul(rest, Py(1000000)))
     /\ PyLt(PyMul(rest, Py(1000000)), PyMul(PyAdd(value.us, Py(1)), prec))

\* the claim as given: every signed 64-bit tick count decodes to its instant
C9_EveryTickCount ==
  DecodedWhole("DateTime64")
    => /\ last.result.err = ""
       /\ InstantOf(last.result.value, IntFromBytes(Field, "little", TRUE), codec.prec)

\* C9: a DateTime64 of scale 0..9 decodes the signed 64-bit tick count t to
\* the instant epoch + floor(t / 10^s) seconds + m microseconds,
\* m = ((t - floor(t / 10^s) * 10^s) * 1000000) // 10^s in 0..999999, and the
\* offset moved on by 8, whenever that second count has a datetime (years 1
\* to 9999, in UTC and in the codec's timezone); otherwise the decode raises.
\* 0 ticks are the epoch and 10^s ticks are the epoch plus one second.
C9_DateTime64Instant ==
  DecodedWhole("DateTime64")
    => LET t == IntFromBytes(Field, "little", TRUE)
       IN IF TicksInRange(t, codec.prec, codec.tzinfo)
          THEN /\ last.result.err = ""
               /\ last.result.loc = last.loc + 8
               /\ InstantOf(last.result.value, t, codec.prec)
               /\ t = PyZero
                    => (last.result.value.secs = PyZero /\ last.result.value.us = PyZero)
               /\ t = codec.prec
                    => (last.result.value.secs = Py(1) /\ last.result.value.us = PyZero)
          ELSE last.result.err # ""

\* a count of -10^s - 1 ticks, s > 0, decoded to two seconds before the epoch
\* and a fraction
C9_Witness ==
  /\ DecodedWhole("DateTime64")
  /\ PyLt(Py(1), codec.prec)
  /\ IntFromBytes(Field, "little", TRUE) = PySub(PyNeg(codec.prec), Py(1))
  /\ last.result.err = ""
  /\ last.result.value.secs = Py(0 - 2)
  /\ PyLt(PyZero, last.result.value.us)

(***************************************************************************)
(* C10: IPv6 and the IPv4-mapped addresses.                                *)
(***************************************************************************)
\* ten 00 bytes, then FF FF
MappedPrefix == Repeat(0, 10) \o <<255, 255>>

\* C10: an IPv6 field of the IPv4-mapped prefix and four bytes b decodes to
\* the text the IPv4 codec gives for b, and a field of any other first
\* twelve bytes decodes to the IPv6 text of the address.
C10_MappedOnly ==
  DecodedWhole("IPv6")
    => /\ last.result.err = ""
       /\ last.result.value =
            IF Slice(Field, 0, 12) = MappedPrefix
            THEN IPv4_from_row_binary(codec, Slice(Field, 12, 16), 0).value
            ELSE Str(IPv6Str(IntFromBytes(Field, "big", FALSE)))

====
